---- MODULE Spec2Model ----
(***************************************************************************)
(* A model of cnocr/trainer.py: the optimizer and learning-rate schedule   *)
(* factories, the two Accuracy metrics, the WrapperLightningModule         *)
(* validation step, PlTrainer construction and fit, and resave_model.      *)
(*                                                                         *)
(* Python values are modelled as follows.                                  *)
(*   - a float is an exact rational [nan, num, den]; NaN has nan = TRUE;   *)
(*   - a str is a sequence of tokens (characters, or whole words where the *)
(*     code never looks inside them); "." and "/" are always tokens of     *)
(*     their own, so that split/rsplit scan for them as the code does;     *)
(*   - a dict is a function whose DOMAIN is its key set; an ordered dict   *)
(*     that is iterated is a sequence of <<key, value>> pairs;             *)
(*   - a call ends in Return(v) or Raise(e).                               *)
(* torch and pytorch_lightning are outside the repository: a constructor   *)
(* of theirs is modelled as the record of the arguments it was given.      *)
(***************************************************************************)
EXTENDS Integers, Sequences, FiniteSets, TLC

VARIABLES
    labels_list,   \* batch[2] of the batch at hand: a list of label sequences
    res_preds,     \* res['preds'] of the wrapped model: a list of <<pred, aux>>
    acc_call,      \* the last direct call of an Accuracy classmethod
    val_call,      \* the last WrapperLightningModule.validation_step call
    logged,        \* what the adapter has passed to log_dict, oldest first
    opt_args,      \* the arguments get_optimizer is called with
    opt_call,      \* the get_optimizer call made
    warnings,      \* what the module's logger has been given as warnings
    config,        \* the configuration dict get_lr_scheduler is called with
    sched_call,    \* the get_lr_scheduler call made
    files,         \* the file system: a function from the paths of the files
                   \* there are to what torch.load reads from them
    resave_call,   \* the direct resave_model call made
    trainer_args,  \* the class and configuration a PlTrainer is built from
    trainer,       \* the PlTrainer object, None before its construction
    fit_pc,        \* where PlTrainer.fit is: idle, framework, postprocess, done
    best_model_path, \* pl_trainer.checkpoint_callback.best_model_path
    fit_call       \* the outcome of PlTrainer.fit

metricsVars == <<labels_list, res_preds, acc_call, val_call, logged>>
optimizerVars == <<opt_args, opt_call, warnings>>
schedulerVars == <<config, sched_call>>

fileVars == <<files, resave_call>>
trainerVars == <<trainer_args, trainer, fit_pc, best_model_path, fit_call>>

vars == <<metricsVars, optimizerVars, schedulerVars, fileVars, trainerVars>>

-----------------------------------------------------------------------------
(* Bounds of the model.                                                    *)

MaxSeqLen == 1      \* longest label / prediction sequence drawn exhaustively
MaxExamples == 2    \* most examples in a batch

-----------------------------------------------------------------------------
(* Python values.                                                          *)

None == [t |-> "None"]

Return(v) == [raised |-> "none", value |-> v]
Raise(e) == [raised |-> e, value |-> None]

\* 1e-6 is 1/Micro: x / (n + 1e-6) is the rational (x * Micro) / (n * Micro + 1).
Micro == 1000000

Str(s) == [t |-> "str", s |-> s]
PyInt(i) == [t |-> "int", v |-> i]

Float(n, d) == [nan |-> FALSE, num |-> n, den |-> d]
NaN == [nan |-> TRUE, num |-> 0, den |-> 1]

isnan(v) == v.nan

Min(a, b) == IF a <= b THEN a ELSE b
Max(a, b) == IF a >= b THEN a ELSE b

SeqsUpTo(S, n) == UNION {[1..k -> S] : k \in 0..n}

\* zip(*pairs)[0]: the first components, in order.
Firsts(pairs) == [i \in 1..Len(pairs) |-> pairs[i][1]]

\* A dict from the choice of a value or Absent for each possible key.
Absent == [t |-> "absent"]
Dict(choice) == [k \in {k \in DOMAIN choice : choice[k] # Absent} |-> choice[k]]

NoCall == [op |-> "none"]

-----------------------------------------------------------------------------
(* get_optimizer                                                           *)

Small == <<"a", "d", "g", "m", "o", "p", "r", "s", "w">>
Capital == <<"A", "D", "G", "M", "O", "P", "R", "S", "W">>

\* str.lower(), character by character.
lower(s) ==
    [i \in 1..Len(s) |->
        IF \E c \in 1..Len(Capital) : Capital[c] = s[i]
        THEN Small[CHOOSE c \in 1..Len(Capital) : Capital[c] = s[i]]
        ELSE s[i]]

adam == <<"a", "d", "a", "m">>
adamw == <<"a", "d", "a", "m", "w">>
sgd == <<"s", "g", "d">>
adagrad == <<"a", "d", "a", "g", "r", "a", "d">>
rmsprop == <<"r", "m", "s", "p", "r", "o", "p">>

OPTIMIZERS ==
    [k \in {adam, adamw, sgd, adagrad, rmsprop} |->
        CASE k = adam -> "Adam"
          [] k = adamw -> "AdamW"
          [] k = sgd -> "SGD"
          [] k = adagrad -> "Adagrad"
          [] k = rmsprop -> "RMSprop"]

\* opt_cls(model.parameters(), lr=learning_rate, weight_decay=weight_decay)
Optimizer(cls, learning_rate, weight_decay) ==
    [cls |-> cls, lr |-> learning_rate, weight_decay |-> weight_decay]

UnrecognizedWarning == "Received unrecognized optimizer, set default Adam optimizer"

\* A plausible bug: the name is looked up as it was given.
get_optimizer_as_given(name, learning_rate, weight_decay) ==
    IF name.t = "str" /\ name.s \in DOMAIN OPTIMIZERS
    THEN [out |-> Return(Optimizer(OPTIMIZERS[name.s],
                                   learning_rate, weight_decay)),
          warned |-> <<>>]
    ELSE [out |-> Return(Optimizer("Adam", learning_rate, weight_decay)),
          warned |-> <<UnrecognizedWarning>>]

\* The try block raises AttributeError for a name without lower() and
\* KeyError for a name that is no key of OPTIMIZERS; the bare except catches
\* either.  The result is the outcome and the warnings logged.
get_optimizer(name, learning_rate, weight_decay) ==
    IF name.t = "str" /\ lower(name.s) \in DOMAIN OPTIMIZERS
    THEN [out |-> Return(Optimizer(OPTIMIZERS[lower(name.s)],
                                   learning_rate, weight_decay)),
          warned |-> <<>>]
    ELSE [out |-> Return(Optimizer("Adam", learning_rate, weight_decay)),
          warned |-> <<UnrecognizedWarning>>]

-----------------------------------------------------------------------------
(* get_lr_scheduler                                                        *)

IsNumber(v) == "num" \in DOMAIN v

\* v / 10.0
TenthOf(v) == Float(v.num, v.den * 10)

MultiStepLR == [cls |-> "MultiStepLR", milestones |-> <<2, 6, 12>>,
                gamma |-> Float(1, 2)]
CosineAnnealingWarmRestarts(eta_min) ==
    [cls |-> "CosineAnnealingWarmRestarts", T_0 |-> 4, T_mult |-> 1,
     eta_min |-> eta_min]
CyclicLR(base_lr, max_lr) ==
    [cls |-> "CyclicLR", base_lr |-> base_lr, max_lr |-> max_lr,
     step_size_up |-> 2, cycle_momentum |-> FALSE]
\* lr_lambda=lambda _: 1
LambdaLR == [cls |-> "LambdaLR", lr_lambda |-> PyInt(1)]
StepLR(step_size, gamma) ==
    [cls |-> "StepLR", step_size |-> step_size, gamma |-> gamma]

\* Lines 73-77, reached when the name is none of the three recognized ones.
\* reads lists the keys looked up so far, in order.
DefaultSchedule(cfg, reads) ==
    IF "step_size" \notin DOMAIN cfg["lr_scheduler"]
    THEN [out |-> Raise("KeyError"), reads |-> reads \o <<"step_size">>]
    ELSE IF "gamma" \notin DOMAIN cfg
    THEN [out |-> Raise("KeyError"), reads |-> reads \o <<"step_size", "gamma">>]
    ELSE LET step_size == cfg["lr_scheduler"]["step_size"]
             gamma == cfg["gamma"]
         IN [out |-> IF step_size = None \/ gamma = None
                     THEN Return(LambdaLR)
                     ELSE Return(StepLR(step_size, gamma)),
             reads |-> reads \o <<"step_size", "gamma">>]

\* Lines 58-71 and on: the dispatch on the popped name.
Dispatch(cfg, reads) ==
    LET orig_lr == cfg["learning_rate"]
        lr_sch_name == cfg["lr_scheduler"]["name"]
    IN IF lr_sch_name = Str("multi_step")
       THEN [out |-> Return(MultiStepLR), reads |-> reads]
       ELSE IF lr_sch_name = Str("cos_anneal")
       THEN [out |-> IF IsNumber(orig_lr)
                     THEN Return(CosineAnnealingWarmRestarts(TenthOf(orig_lr)))
                     ELSE Raise("TypeError"),
             reads |-> reads]
       ELSE IF lr_sch_name = Str("cyclic")
       THEN [out |-> IF IsNumber(orig_lr)
                     THEN Return(CyclicLR(TenthOf(orig_lr), orig_lr))
                     ELSE Raise("TypeError"),
             reads |-> reads]
       ELSE DefaultSchedule(cfg, reads)

\* A plausible bug: step_size and gamma are read before the dispatch.
get_lr_scheduler_reads_first(cfg) ==
    IF \/ "learning_rate" \notin DOMAIN cfg
       \/ "lr_scheduler" \notin DOMAIN cfg
       \/ "name" \notin DOMAIN cfg["lr_scheduler"]
       \/ "step_size" \notin DOMAIN cfg["lr_scheduler"]
       \/ "gamma" \notin DOMAIN cfg
    THEN [out |-> Raise("KeyError"),
          reads |-> <<"learning_rate", "lr_scheduler", "name",
                      "step_size", "gamma">>]
    ELSE LET r == Dispatch(cfg, <<"learning_rate", "lr_scheduler", "name">>)
         IN [out |-> r.out,
             reads |-> <<"learning_rate", "lr_scheduler", "name",
                         "step_size", "gamma">>]

get_lr_scheduler(cfg) ==
    IF "learning_rate" \notin DOMAIN cfg
    THEN [out |-> Raise("KeyError"), reads |-> <<"learning_rate">>]
    ELSE IF "lr_scheduler" \notin DOMAIN cfg
    THEN [out |-> Raise("KeyError"),
          reads |-> <<"learning_rate", "lr_scheduler">>]
    ELSE IF "name" \notin DOMAIN cfg["lr_scheduler"]
    THEN \* lr_sch_config.pop('name') has no default
         [out |-> Raise("KeyError"),
          reads |-> <<"learning_rate", "lr_scheduler", "name">>]
    ELSE Dispatch(cfg, <<"learning_rate", "lr_scheduler", "name">>)

-----------------------------------------------------------------------------
(* str methods, on sequences of tokens.                                    *)

Positions(s, c) == {i \in 1..Len(s) : s[i] = c}
First(S) == CHOOSE i \in S : \A j \in S : i <= j
Last(S) == CHOOSE i \in S : \A j \in S : j <= i

Before(s, i) == SubSeq(s, 1, i - 1)
After(s, i) == SubSeq(s, i + 1, Len(s))

\* s.split(sep, maxsplit=1)
split1(s, sep) ==
    IF Positions(s, sep) = {} THEN <<s>>
    ELSE LET i == First(Positions(s, sep)) IN <<Before(s, i), After(s, i)>>

\* s.split(sep)
RECURSIVE split(_, _)
split(s, sep) ==
    IF Positions(s, sep) = {} THEN <<s>>
    ELSE LET i == First(Positions(s, sep))
         IN <<Before(s, i)>> \o split(After(s, i), sep)

\* s.rsplit(sep, maxsplit=1)
rsplit1(s, sep) ==
    IF Positions(s, sep) = {} THEN <<s>>
    ELSE LET i == Last(Positions(s, sep)) IN <<Before(s, i), After(s, i)>>

\* sep.join(fields)
RECURSIVE join(_, _)
join(sep, fields) ==
    IF Len(fields) = 0 THEN <<>>
    ELSE IF Len(fields) = 1 THEN fields[1]
    ELSE fields[1] \o <<sep>> \o join(sep, Tail(fields))

-----------------------------------------------------------------------------
(* dict methods.  An ordered dict is a sequence of <<key, value>> pairs    *)
(* with no key twice.                                                      *)

Keys(d) == {d[i][1] : i \in 1..Len(d)}
Lookup(d, k) == d[CHOOSE i \in 1..Len(d) : d[i][1] = k][2]

\* d[k] = v: in place for a key d has, at the end for a new one.
Store(d, k, v) ==
    IF k \in Keys(d)
    THEN [i \in 1..Len(d) |-> IF d[i][1] = k THEN <<k, v>> ELSE d[i]]
    ELSE Append(d, <<k, v>>)

\* d.get(k, default), of a dict that is a function.
Get(d, k, default) == IF k \in DOMAIN d THEN d[k] ELSE default

-----------------------------------------------------------------------------
(* resave_model                                                            *)

NoFiles == [p \in {} |-> None]

\* A plausible bug: maxsplit is forgotten, and [1] is the second segment.
NewKey_second_segment(k) ==
    IF Len(split(k, ".")) < 2 THEN Raise("IndexError")
    ELSE Return(split(k, ".")[2])

\* k.split('.', maxsplit=1)[1]
NewKey(k) ==
    IF Len(split1(k, ".")) < 2 THEN Raise("IndexError")
    ELSE Return(split1(k, ".")[2])

\* The loop over checkpoint['state_dict'].items(), from item i on: the
\* state_dict built, or the error that ends the loop.
RECURSIVE Renamed(_, _, _)
Renamed(items, i, state_dict) ==
    IF i > Len(items) THEN Return(state_dict)
    ELSE LET k == NewKey(items[i][1])
         IN IF k.raised # "none" THEN k
            ELSE Renamed(items, i + 1, Store(state_dict, k.value, items[i][2]))

\* resave_model on the file system fs: the outcome and the file system left.
resave_model(fs, module_fp, output_model_fp) ==
    IF module_fp \notin DOMAIN fs
    THEN [out |-> Raise("FileNotFoundError"), fs |-> fs]
    ELSE LET checkpoint == fs[module_fp]
         IN IF "state_dict" \notin DOMAIN checkpoint
            THEN [out |-> Raise("KeyError"), fs |-> fs]
            ELSE LET state_dict == Renamed(checkpoint["state_dict"], 1, <<>>)
                 IN IF state_dict.raised # "none"
                    THEN [out |-> state_dict, fs |-> fs]
                    ELSE [out |-> Return(None),
                          fs |-> [p \in DOMAIN fs \cup {output_model_fp} |->
                                    IF p = output_model_fp
                                    THEN [state_dict |-> state_dict.value]
                                    ELSE fs[p]]]

-----------------------------------------------------------------------------
(* class PlTrainer                                                         *)

\* bool(v) of a configured value: None and the empty string are false.
Truthy(v) == v # None /\ ~(v.t = "str" /\ v.s = <<>>)

LearningRateMonitor == [cls |-> "LearningRateMonitor", logging_interval |-> "step"]

ModelCheckpoint(monitor, mode, filename, save_last, save_top_k) ==
    [cls |-> "ModelCheckpoint", monitor |-> monitor, mode |-> mode,
     filename |-> filename, save_last |-> save_last, save_top_k |-> save_top_k]

Callbacks(class_name, cfg, default_mode, top_k) ==
    LET mode == Get(cfg, "pl_checkpoint_mode", Str(default_mode))
        monitor == Get(cfg, "pl_checkpoint_monitor", None)
        fn_fields == <<class_name, <<"{epoch:03d}">>>>
    IN IF Truthy(monitor)
       THEN <<LearningRateMonitor,
              ModelCheckpoint(monitor, mode,
                              join("-", Append(fn_fields,
                                               <<"{">> \o monitor.s \o <<":.4f}">>)),
                              TRUE, top_k)>>
       ELSE <<LearningRateMonitor>>

\* A plausible bug: the default of pl_checkpoint_mode is max.
PlTrainer_init_default_max(class_name, cfg) ==
    [config |-> cfg,
     pl_trainer |-> [gpus |-> Get(cfg, "gpus", None),
                     max_epochs |-> Get(cfg, "epochs", PyInt(20)),
                     precision |-> Get(cfg, "precision", PyInt(32)),
                     callbacks |-> Callbacks(class_name, cfg, "max", 5),
                     stochastic_weight_avg |-> TRUE]]

\* PlTrainer.__init__ of an object of class class_name: the object built.
\* It has no saved_model_file attribute yet.
PlTrainer_init(class_name, cfg) ==
    [config |-> cfg,
     pl_trainer |-> [gpus |-> Get(cfg, "gpus", None),
                     max_epochs |-> Get(cfg, "epochs", PyInt(20)),
                     precision |-> Get(cfg, "precision", PyInt(32)),
                     callbacks |-> Callbacks(class_name, cfg, "min", 5),
                     stochastic_weight_avg |-> TRUE]]

\* WrapperLightningModule.__init__: the adapter and the warnings logged, or
\* the KeyError of a configuration without optimizer or learning_rate.
WrapperLightningModule_init(cfg) ==
    IF "optimizer" \notin DOMAIN cfg \/ "learning_rate" \notin DOMAIN cfg
    THEN [out |-> Raise("KeyError"), warned |-> <<>>]
    ELSE LET r == get_optimizer(cfg["optimizer"], cfg["learning_rate"],
                                Get(cfg, "weight_decay", PyInt(0)))
         IN [out |-> Return([config |-> cfg, optimizer |-> r.out.value]),
             warned |-> r.warned]

\* Lines 226-230: the path the best checkpoint is re-saved to.
output_model_fp(best) ==
    LET fields == rsplit1(best, ".")
    IN join(".", [fields EXCEPT ![1] = @ \o <<"-model">>])

\* Lines 226-236, after the framework's fit has returned res: the outcome of
\* fit, the trainer object and the file system left.
fit_postprocess(obj, fs, best, res) ==
    LET out_fp == output_model_fp(best)
        saved == resave_model(fs, best, out_fp)
    IN IF saved.out.raised # "none"
       THEN [out |-> saved.out, trainer |-> obj, fs |-> saved.fs]
       ELSE [out |-> Return(res),
             trainer |-> [k \in DOMAIN obj \cup {"saved_model_file"} |->
                            IF k = "saved_model_file" THEN out_fp ELSE obj[k]],
             fs |-> saved.fs]

-----------------------------------------------------------------------------
(* class Accuracy                                                          *)

\* The loop of complete_match over zip(labels, preds), from pair i on.
RECURSIVE CompleteHits(_, _, _, _)
CompleteHits(labels, preds, i, hit_num) ==
    IF i > Min(Len(labels), Len(preds)) THEN hit_num
    ELSE CompleteHits(labels, preds, i + 1,
                      IF labels[i] = preds[i] THEN hit_num + 1 ELSE hit_num)

\* A plausible bug: the assertion is gone, and zip() pairs what it can.
complete_match_no_assert(labels, preds) ==
    Return(Float(CompleteHits(labels, preds, 1, 0) * Micro,
                 Len(labels) * Micro + 1))

\* A plausible bug: a pair counts as a hit when the lengths agree.
complete_match_same_length(labels, preds) ==
    IF Len(labels) # Len(preds) THEN Raise("AssertionError")
    ELSE LET total_num == Len(labels)
             hit_num == Cardinality({i \in 1..Len(labels) :
                                       Len(labels[i]) = Len(preds[i])})
         IN Return(Float(hit_num * Micro, total_num * Micro + 1))

complete_match(labels, preds) ==
    IF Len(labels) # Len(preds) THEN Raise("AssertionError")
    ELSE LET total_num == Len(labels)
             hit_num == CompleteHits(labels, preds, 1, 0)
         IN Return(Float(hit_num * Micro, total_num * Micro + 1))

\* sum([l == p for l, p in zip(label[:min_len], pred[:min_len])])
RECURSIVE PrefixHits(_, _, _, _)
PrefixHits(label, pred, min_len, j) ==
    IF j > min_len THEN 0
    ELSE (IF label[j] = pred[j] THEN 1 ELSE 0)
         + PrefixHits(label, pred, min_len, j + 1)

\* The loop of label_match over zip(labels, preds), from pair i on; the
\* result is <<total_num, hit_num>>.
RECURSIVE LabelLoop(_, _, _, _, _)
LabelLoop(labels, preds, i, total_num, hit_num) ==
    IF i > Min(Len(labels), Len(preds)) THEN <<total_num, hit_num>>
    ELSE LET label == labels[i]
             pred == preds[i]
             min_len == Min(Len(label), Len(pred))
         IN LabelLoop(labels, preds, i + 1,
                      total_num + Max(Len(label), Len(pred)),
                      hit_num + PrefixHits(label, pred, min_len, 1))

\* A plausible bug: the denominator grows by the overlap, not by the longer
\* of the two lengths.
RECURSIVE OverlapTotal(_, _, _)
OverlapTotal(labels, preds, i) ==
    IF i > Min(Len(labels), Len(preds)) THEN 0
    ELSE Min(Len(labels[i]), Len(preds[i])) + OverlapTotal(labels, preds, i + 1)

label_match_overlap_total(labels, preds) ==
    IF Len(labels) # Len(preds) THEN Raise("AssertionError")
    ELSE LET r == LabelLoop(labels, preds, 1, 0, 0)
         IN Return(Float(r[2] * Micro, OverlapTotal(labels, preds, 1) * Micro + 1))

label_match(labels, preds) ==
    IF Len(labels) # Len(preds) THEN Raise("AssertionError")
    ELSE LET r == LabelLoop(labels, preds, 1, 0, 0)
         IN Return(Float(r[2] * Micro, r[1] * Micro + 1))

-----------------------------------------------------------------------------
(* class WrapperLightningModule                                            *)

\* validation_step(batch, batch_idx) of an adapter whose wrapped model does
\* (has_own) or does not define validation_step itself.  own_result is what
\* the wrapped model's validation_step returns, loss what losses.item() of
\* its calculate_loss is, labels batch[2] and preds_aux res['preds'].
\* The result is the outcome, the calls made in order, and the dicts the
\* adapter passed to log_dict.
\* A plausible bug: the filter is lost and every metric is logged.
DropNaN_keep_all(metrics) == metrics

\* {k: v for k, v in val_metrics.items() if not np.isnan(v)}
DropNaN(metrics) ==
    [k \in {k \in DOMAIN metrics : ~isnan(metrics[k])} |-> metrics[k]]

validation_step(has_own, own_result, loss, labels, preds_aux) ==
    IF has_own
    THEN [out |-> Return(own_result),
          calls |-> <<"model.validation_step">>,
          log |-> <<>>]
    ELSE IF Len(preds_aux) = 0
    THEN \* preds, _ = zip(*[]) has nothing to unpack
         [out |-> Raise("ValueError"),
          calls |-> <<"model.calculate_loss">>,
          log |-> <<>>]
    ELSE LET preds == Firsts(preds_aux)
             cm == complete_match(labels, preds)
             lm == label_match(labels, preds)
         IN IF cm.raised # "none"
            THEN [out |-> cm,
                  calls |-> <<"model.calculate_loss", "complete_match">>,
                  log |-> <<>>]
            ELSE IF lm.raised # "none"
            THEN [out |-> lm,
                  calls |-> <<"model.calculate_loss", "complete_match",
                              "label_match">>,
                  log |-> <<>>]
            ELSE LET all == [k \in {"val_loss", "complete_match", "label_match"}
                               |-> CASE k = "val_loss" -> loss
                                     [] k = "complete_match" -> cm.value
                                     [] k = "label_match" -> lm.value]
                     val_metrics == DropNaN(all)
                 IN [out |-> Return(loss),
                     calls |-> <<"model.calculate_loss", "complete_match",
                                 "label_match", "log_dict">>,
                     log |-> <<val_metrics>>]

-----------------------------------------------------------------------------
(* The metrics and the validation step, on one batch.                      *)

\* Only equality of a label token and a predicted token is ever observed, so
\* labels over one token and predictions over two give every match pattern.
LabelTokens == {"a"}
PredTokens == {"a", "x"}
Aux == "aux"

\* The worked examples of the documentation, and longer sequences than the
\* exhaustive part draws, whatever the bounds.
ExampleBatches ==
    { [labels |-> << <<"a", "b", "c">> >>, preds |-> << <<"a", "x">> >>],
      [labels |-> << <<"a", "b">> >>, preds |-> << <<"a", "b">> >>],
      [labels |-> << <<"a", "b", "c">>, <<"a">> >>,
       preds |-> << <<"a", "x">>, <<"a">> >>],
      [labels |-> << <<"a", "b">>, <<"c">> >>,
       preds |-> << <<"a", "b">>, <<"c">> >>],
      [labels |-> << <<"a", "b">>, <<"c">> >>,
       preds |-> << <<"b", "a">>, <<"c", "c">>, <<"a">> >>] }

Batches ==
    { [labels |-> l, preds |-> p] :
        l \in SeqsUpTo(SeqsUpTo(LabelTokens, MaxSeqLen), MaxExamples),
        p \in SeqsUpTo(SeqsUpTo(PredTokens, MaxSeqLen), MaxExamples) }
    \cup ExampleBatches

LossValues == {NaN, Float(1, 2)}
OwnResults == {None, Float(1, 2)}

MetricsIdle ==
    /\ labels_list = <<>>
    /\ res_preds = <<>>
    /\ acc_call = NoCall
    /\ val_call = NoCall
    /\ logged = <<>>

OptimizerIdle ==
    /\ opt_args = None
    /\ opt_call = NoCall
    /\ warnings = <<>>

SchedulerIdle ==
    /\ config = None
    /\ sched_call = NoCall

FilesIdle ==
    /\ files = NoFiles
    /\ resave_call = NoCall

TrainerIdle ==
    /\ trainer_args = None
    /\ trainer = None
    /\ fit_pc = "idle"
    /\ best_model_path = <<>>
    /\ fit_call = NoCall

InitMetrics ==
    /\ \E b \in Batches :
         /\ labels_list = b.labels
         /\ res_preds = [i \in 1..Len(b.preds) |-> <<b.preds[i], Aux>>]
    /\ acc_call = NoCall
    /\ val_call = NoCall
    /\ logged = <<>>
    /\ OptimizerIdle
    /\ SchedulerIdle
    /\ FilesIdle
    /\ TrainerIdle

CompleteMatch ==
    /\ acc_call' = [op |-> "complete_match",
                    out |-> complete_match(labels_list, Firsts(res_preds))]
    /\ UNCHANGED <<labels_list, res_preds, val_call, logged>>
    /\ UNCHANGED <<optimizerVars, schedulerVars, fileVars, trainerVars>>

LabelMatch ==
    /\ acc_call' = [op |-> "label_match",
                    out |-> label_match(labels_list, Firsts(res_preds))]
    /\ UNCHANGED <<labels_list, res_preds, val_call, logged>>
    /\ UNCHANGED <<optimizerVars, schedulerVars, fileVars, trainerVars>>

\* The framework hands each batch to validation_step once.
ValidationStep ==
    /\ val_call = NoCall
    /\ \E has_own \in BOOLEAN, own_result \in OwnResults, loss \in LossValues :
         LET r == validation_step(has_own, own_result, loss,
                                  labels_list, res_preds)
         IN /\ val_call' = [op |-> "validation_step", has_own |-> has_own,
                            own_result |-> own_result, loss |-> loss,
                            out |-> r.out, calls |-> r.calls]
            /\ logged' = logged \o r.log
    /\ UNCHANGED <<labels_list, res_preds, acc_call>>
    /\ UNCHANGED <<optimizerVars, schedulerVars, fileVars, trainerVars>>

NextMetrics == CompleteMatch \/ LabelMatch \/ ValidationStep

SpecMetrics == InitMetrics /\ [][NextMetrics]_vars

-----------------------------------------------------------------------------
(* One call of get_optimizer.                                              *)

\* Every spelling of w in small and capital letters.
Spellings(w) ==
    { [i \in 1..Len(w) |->
         IF i \in caps
         THEN Capital[CHOOSE c \in 1..Len(Small) : Small[c] = w[i]]
         ELSE w[i]] : caps \in SUBSET (1..Len(w)) }

OtherNames ==
    { <<>>, <<"f", "o", "o">>, <<"a", "d", "a">>, <<"a", "d", "a", "m", "x">>,
      <<"a", "d", "a", "m", " ">>, <<"s", "g", "d", "1">>, <<"S", "G", "D", "_">> }

OptimizerNames ==
    {Str(n) : n \in (UNION {Spellings(k) : k \in DOMAIN OPTIMIZERS}) \cup OtherNames}
    \cup {None}

LearningRates == {Float(1, 10), Float(1, 1000)}
WeightDecays == {Float(0, 1), Float(1, 100)}

InitOptimizer ==
    /\ opt_args \in [name : OptimizerNames, learning_rate : LearningRates,
                      weight_decay : WeightDecays]
    /\ opt_call = NoCall
    /\ warnings = <<>>
    /\ MetricsIdle
    /\ SchedulerIdle
    /\ FilesIdle
    /\ TrainerIdle

GetOptimizer ==
    /\ opt_call = NoCall
    /\ LET r == get_optimizer(opt_args.name, opt_args.learning_rate,
                              opt_args.weight_decay)
       IN /\ opt_call' = [op |-> "get_optimizer", out |-> r.out]
          /\ warnings' = warnings \o r.warned
    /\ UNCHANGED <<opt_args, metricsVars, schedulerVars, fileVars, trainerVars>>

NextOptimizer == GetOptimizer

SpecOptimizer == InitOptimizer /\ [][NextOptimizer]_vars

-----------------------------------------------------------------------------
(* One call of get_lr_scheduler.                                           *)

MaxStepSize == 2    \* largest step_size configured

SchedulerNames ==
    {Absent, None, Str("multi_step"), Str("cos_anneal"), Str("cyclic"),
     Str("step"), Str("foo"), Str("MULTI_STEP")}

SchedulerDicts ==
    { Dict([k \in {"name", "step_size"} |->
              IF k = "name" THEN n ELSE st]) :
        n \in SchedulerNames,
        st \in {Absent, None} \cup {PyInt(i) : i \in 1..MaxStepSize} }

Configs ==
    { Dict([k \in {"learning_rate", "lr_scheduler", "gamma"} |->
              CASE k = "learning_rate" -> lr
                [] k = "lr_scheduler" -> sch
                [] k = "gamma" -> g]) :
        lr \in {Absent, None, Float(1, 10)},
        sch \in {Absent} \cup SchedulerDicts,
        g \in {Absent, None, Float(1, 2), Float(9, 10)} }

InitScheduler ==
    /\ config \in Configs
    /\ sched_call = NoCall
    /\ MetricsIdle
    /\ OptimizerIdle
    /\ FilesIdle
    /\ TrainerIdle

GetLrScheduler ==
    /\ sched_call = NoCall
    /\ LET r == get_lr_scheduler(config)
       IN sched_call' = [op |-> "get_lr_scheduler", out |-> r.out,
                         reads |-> r.reads]
    /\ UNCHANGED <<config, metricsVars, optimizerVars, fileVars, trainerVars>>

NextScheduler == GetLrScheduler

SpecScheduler == InitScheduler /\ [][NextScheduler]_vars

-----------------------------------------------------------------------------
(* One call of resave_model.                                               *)

MaxRestLen == 2     \* most tokens after "model." in a parameter name
MaxEntries == 2     \* most parameters in a state_dict

ModuleFp == <<"best", ".", "ckpt">>
OutputFp == <<"best", "-model", ".", "ckpt">>

\* The names of the parameters of the adapter, whose one submodule is model,
\* and a few names that are not of that form.
PrefixedKeys == {<<"model", ".">> \o r : r \in SeqsUpTo({".", "w", "b"}, MaxRestLen)}
ForeignKeys == {<<"w">>, <<"model">>, <<"net", ".", "w">>}

Tensor(i) == [t |-> "tensor", id |-> i]

\* The state_dicts of up to MaxEntries parameters: the keys differ, and the
\* i-th value is a tensor of its own.
StateDicts ==
    { [i \in 1..Len(ks) |-> <<ks[i], Tensor(i)>>] :
        ks \in {ks \in SeqsUpTo(PrefixedKeys \cup ForeignKeys, MaxEntries) :
                  \A i, j \in 1..Len(ks) : ks[i] = ks[j] => i = j} }

Checkpoints ==
    {[epoch |-> PyInt(3), state_dict |-> sd] : sd \in StateDicts}
    \cup {[epoch |-> PyInt(3)]}

InitResave ==
    /\ \/ files = NoFiles
       \/ \E c \in Checkpoints : files = [p \in {ModuleFp} |-> c]
    /\ resave_call = NoCall
    /\ MetricsIdle
    /\ OptimizerIdle
    /\ SchedulerIdle
    /\ TrainerIdle

ResaveModel ==
    /\ resave_call = NoCall
    /\ LET r == resave_model(files, ModuleFp, OutputFp)
       IN /\ resave_call' = [op |-> "resave_model", out |-> r.out,
                             checkpoint |-> Get(files, ModuleFp, None)]
          /\ files' = r.fs
    /\ UNCHANGED <<metricsVars, optimizerVars, schedulerVars, trainerVars>>

NextResave == ResaveModel

SpecResave == InitResave /\ [][NextResave]_vars

-----------------------------------------------------------------------------
(* The construction of a PlTrainer.                                        *)

MaxEpochs == 2      \* most epochs configured

ClassNames == {<<"PlTrainer">>, <<"MyTrainer">>}

TrainerConfigs ==
    { Dict([k \in {"pl_checkpoint_mode", "pl_checkpoint_monitor", "epochs",
                   "precision", "gpus"} |->
              CASE k = "pl_checkpoint_mode" -> mode
                [] k = "pl_checkpoint_monitor" -> monitor
                [] k = "epochs" -> epochs
                [] k = "precision" -> precision
                [] k = "gpus" -> gpus]) :
        mode \in {Absent, Str("min"), Str("max")},
        monitor \in {Absent, None, Str(<<>>), Str(<<"val_loss">>),
                     Str(<<"complete_match">>)},
        epochs \in {Absent} \cup {PyInt(i) : i \in 1..MaxEpochs},
        precision \in {Absent, PyInt(16)},
        gpus \in {Absent, PyInt(1)} }

InitConstruct ==
    /\ trainer_args \in [class_name : ClassNames, config : TrainerConfigs]
    /\ trainer = None
    /\ fit_pc = "idle"
    /\ best_model_path = <<>>
    /\ fit_call = NoCall
    /\ MetricsIdle
    /\ OptimizerIdle
    /\ SchedulerIdle
    /\ FilesIdle

Construct ==
    /\ trainer = None
    /\ trainer' = PlTrainer_init(trainer_args.class_name, trainer_args.config)
    /\ UNCHANGED <<trainer_args, fit_pc, best_model_path, fit_call>>
    /\ UNCHANGED <<metricsVars, optimizerVars, schedulerVars, fileVars>>

NextConstruct == Construct

SpecConstruct == InitConstruct /\ [][NextConstruct]_vars

-----------------------------------------------------------------------------
(* One call of PlTrainer.fit.                                              *)

MaxPathLen == 5     \* most tokens in a path the framework reports

\* The paths the framework may report: the empty string while it has saved
\* no checkpoint, and else the path of a file.  The code takes whatever the
\* checkpoint callback holds.
IsFilePath(p) ==
    LET base == IF Positions(p, "/") = {} THEN p
                ELSE After(p, Last(Positions(p, "/")))
    IN \E i \in 1..Len(base) : base[i] \notin {".", "/"}

BestModelPaths ==
    {<<>>} \cup {p \in SeqsUpTo({"d", "/", ".", "ckpt"}, MaxPathLen) : IsFilePath(p)}

FitConfigs ==
    { Dict([k \in {"optimizer", "learning_rate", "pl_checkpoint_monitor"} |->
              CASE k = "optimizer" -> o
                [] k = "learning_rate" -> Float(1, 1000)
                [] k = "pl_checkpoint_monitor" -> m]) :
        o \in {Absent, Str(adam)},
        m \in {Absent, Str(<<"val_loss">>)} }

\* What the framework's checkpoint callback writes: the parameters of the
\* adapter, which are those of its one submodule, model.
FrameworkCheckpoints ==
    { [epoch |-> PyInt(3),
       state_dict |-> << <<<<"model", ".", "w">>, Tensor(1)>> >>],
      [epoch |-> PyInt(3),
       state_dict |-> << <<<<"model", ".", "w">>, Tensor(1)>>,
                         <<<<"model", ".", "b", ".", "w">>, Tensor(2)>> >>] }

FrameworkResult == [t |-> "fit result"]

InitFit ==
    /\ \E cfg \in FitConfigs :
         /\ trainer_args = [class_name |-> <<"PlTrainer">>, config |-> cfg]
         /\ trainer = PlTrainer_init(<<"PlTrainer">>, cfg)
    /\ fit_pc = "idle"
    /\ best_model_path = <<>>
    /\ fit_call = NoCall
    /\ files = NoFiles
    /\ resave_call = NoCall
    /\ warnings = <<>>
    /\ opt_args = None
    /\ opt_call = NoCall
    /\ MetricsIdle
    /\ SchedulerIdle

\* fit builds the adapter and calls the framework's fit.
FitBegin ==
    /\ fit_pc = "idle"
    /\ LET w == WrapperLightningModule_init(trainer.config)
       IN /\ warnings' = warnings \o w.warned
          /\ IF w.out.raised # "none"
             THEN fit_pc' = "done" /\ fit_call' = [op |-> "fit", out |-> w.out]
             ELSE fit_pc' = "framework" /\ fit_call' = fit_call
    /\ UNCHANGED <<trainer_args, trainer, best_model_path, files, resave_call>>
    /\ UNCHANGED <<opt_args, opt_call, metricsVars, schedulerVars>>

\* The framework's fit returns, having saved its best checkpoint or none.
FrameworkFitReturns ==
    /\ fit_pc = "framework"
    /\ \E best \in BestModelPaths, c \in FrameworkCheckpoints :
         /\ best_model_path' = best
         /\ files' = IF best = <<>> THEN files
                     ELSE [p \in DOMAIN files \cup {best} |->
                             IF p = best THEN c ELSE files[p]]
    /\ fit_pc' = "postprocess"
    /\ UNCHANGED <<trainer_args, trainer, fit_call, resave_call>>
    /\ UNCHANGED <<optimizerVars, metricsVars, schedulerVars>>

\* The framework's fit raises, and so does fit.
FrameworkFitRaises ==
    /\ fit_pc = "framework"
    /\ fit_pc' = "done"
    /\ fit_call' = [op |-> "fit", out |-> Raise("FrameworkError")]
    /\ UNCHANGED <<trainer_args, trainer, best_model_path, files, resave_call>>
    /\ UNCHANGED <<optimizerVars, metricsVars, schedulerVars>>

\* fit re-saves the best checkpoint, records the path and returns.
FitPostprocess ==
    /\ fit_pc = "postprocess"
    /\ LET r == fit_postprocess(trainer, files, best_model_path, FrameworkResult)
       IN /\ fit_call' = [op |-> "fit", out |-> r.out]
          /\ trainer' = r.trainer
          /\ files' = r.fs
    /\ fit_pc' = "done"
    /\ UNCHANGED <<trainer_args, best_model_path, resave_call>>
    /\ UNCHANGED <<optimizerVars, metricsVars, schedulerVars>>

NextFit == FitBegin \/ FrameworkFitReturns \/ FrameworkFitRaises \/ FitPostprocess

SpecFit == InitFit /\ [][NextFit]_vars

-----------------------------------------------------------------------------
(* Properties of the metrics and of the validation step.                   *)

RECURSIVE SumTo(_, _)
SumTo(f, n) == IF n = 0 THEN 0 ELSE f[n] + SumTo(f, n - 1)

preds_list == Firsts(res_preds)
SameLength == Len(labels_list) = Len(preds_list)
Pairs == 1..Len(labels_list)

\* |1 - v| <= 1e-6, for a v of [0, 1]
NearOne(v) == (v.den - v.num) * Micro <= v.den

IdenticalPairs == {i \in Pairs : labels_list[i] = preds_list[i]}

\* C1: label_match of equal-length lists is the one ratio hits / (total + 1e-6),
\* total the sum over the pairs of the longer length and hits the sum over the
\* pairs of the agreeing positions of the overlap; the documentation's example
\* [[a,b,c]] against [[a,x]] gives 1 / (3 + 1e-6).
C1_LabelMatchGlobalRatio ==
    (acc_call.op = "label_match" /\ SameLength) =>
        LET total == SumTo([i \in Pairs |->
                              Max(Len(labels_list[i]), Len(preds_list[i]))],
                           Len(labels_list))
            hits == SumTo([i \in Pairs |->
                             Cardinality({j \in 1..Min(Len(labels_list[i]),
                                                       Len(preds_list[i])) :
                                            labels_list[i][j] = preds_list[i][j]})],
                          Len(labels_list))
        IN /\ acc_call.out = Return(Float(hits * Micro, total * Micro + 1))
           /\ (labels_list = << <<"a", "b", "c">> >>
               /\ preds_list = << <<"a", "x">> >>)
              => acc_call.out.value = Float(1 * Micro, 3 * Micro + 1)

\* label_match has run on two pairs whose ratios differ: 1/3 and 1/1 make
\* 2/4 as one ratio, and would make 2/3 as an average.
C1_Witness ==
    /\ acc_call.op = "label_match"
    /\ labels_list = << <<"a", "b", "c">>, <<"a">> >>
    /\ preds_list = << <<"a", "x">>, <<"a">> >>
    /\ acc_call.out.value = Float(2 * Micro, 4 * Micro + 1)

\* C2 as stated: complete_match of equal-length lists is in [0, 1], is
\* (identical pairs) / (examples + 1e-6), is 1.0 within epsilon when every
\* pair is identical and 0.0 when none is, the empty list included.
C2_AsStated ==
    (acc_call.op = "complete_match" /\ SameLength) =>
        LET v == acc_call.out.value
        IN /\ acc_call.out.raised = "none"
           /\ v = Float(Cardinality(IdenticalPairs) * Micro,
                        Len(labels_list) * Micro + 1)
           /\ 0 <= v.num /\ v.num <= v.den
           /\ (IdenticalPairs = Pairs) => NearOne(v)
           /\ (IdenticalPairs = {}) => v.num = 0

\* C2, amended: as stated, but 1.0 within epsilon only when there is at least
\* one example; of the empty list complete_match is 0.0.
C2_CompleteMatchRatio ==
    (acc_call.op = "complete_match" /\ SameLength) =>
        LET v == acc_call.out.value
        IN /\ acc_call.out.raised = "none"
           /\ v = Float(Cardinality(IdenticalPairs) * Micro,
                        Len(labels_list) * Micro + 1)
           /\ 0 <= v.num /\ v.num <= v.den
           /\ (IdenticalPairs = Pairs /\ Pairs # {}) => NearOne(v)
           /\ (IdenticalPairs = {}) => v.num = 0
           /\ (Pairs = {}) => v.num = 0

\* complete_match has run on two examples, one of them identical.
C2_Witness ==
    /\ acc_call.op = "complete_match"
    /\ Len(labels_list) = 2 /\ SameLength
    /\ Cardinality(IdenticalPairs) = 1
    /\ acc_call.out.value = Float(1 * Micro, 2 * Micro + 1)

\* C3: complete_match and label_match of lists of different lengths raise
\* AssertionError and return nothing; a validation step that reaches the
\* metrics with such lists ends in that AssertionError, and a validation step
\* on such lists logs nothing.
C3_LengthMismatchAsserts ==
    ~SameLength =>
        /\ acc_call.op \in {"complete_match", "label_match"}
             => acc_call.out = Raise("AssertionError")
        /\ (val_call.op = "validation_step" /\ ~val_call.has_own) =>
             /\ val_call.out.raised # "none"
             /\ logged = <<>>
             /\ \A i \in 1..Len(val_call.calls) :
                  /\ val_call.calls[i] # "log_dict"
                  /\ val_call.calls[i] = "complete_match"
                       => /\ val_call.out = Raise("AssertionError")
                          /\ i = Len(val_call.calls)

\* Both a direct call and a validation step have met lists of different
\* lengths.
C3_Witness ==
    /\ ~SameLength
    /\ acc_call.op = "label_match"
    /\ acc_call.out.raised = "AssertionError"
    /\ val_call.op = "validation_step"
    /\ val_call.out.raised = "AssertionError"
    /\ logged = <<>>

ExpectedMetrics ==
    [k \in {"val_loss", "complete_match", "label_match"} |->
        CASE k = "val_loss" -> val_call.loss
          [] k = "complete_match" -> complete_match(labels_list, preds_list).value
          [] k = "label_match" -> label_match(labels_list, preds_list).value]

Delegated ==
    /\ val_call.out = Return(val_call.own_result)
    /\ val_call.calls = <<"model.validation_step">>
    /\ logged = <<>>

LoggedNonNaN ==
    /\ val_call.out = Return(val_call.loss)
    /\ Len(logged) = 1
    /\ DOMAIN logged[1] = {k \in DOMAIN ExpectedMetrics : ~ExpectedMetrics[k].nan}
    /\ \A k \in DOMAIN logged[1] : logged[1][k] = ExpectedMetrics[k]

\* C9 as stated: a validation step is delegated whole to a wrapped model that
\* has its own, and otherwise logs exactly the non-NaN metrics and returns
\* the loss.
C9_AsStated ==
    val_call.op = "validation_step" =>
        IF val_call.has_own THEN Delegated ELSE LoggedNonNaN

\* C9, amended: ... and otherwise, when res['preds'] is not empty and has as
\* many entries as the batch has labels, logs exactly the non-NaN metrics and
\* returns the loss; on any other batch the step raises and logs nothing.
C9_ValidationStep ==
    val_call.op = "validation_step" =>
        IF val_call.has_own THEN Delegated
        ELSE IF Len(res_preds) > 0 /\ SameLength THEN LoggedNonNaN
        ELSE val_call.out.raised # "none" /\ logged = <<>>

\* A validation step of the adapter's own has met a NaN loss and logged the
\* two accuracies alone.
C9_Witness ==
    /\ val_call.op = "validation_step"
    /\ ~val_call.has_own
    /\ val_call.loss = NaN
    /\ val_call.out = Return(NaN)
    /\ Len(logged) = 1
    /\ DOMAIN logged[1] = {"complete_match", "label_match"}

-----------------------------------------------------------------------------
(* Properties of the factories.                                            *)

\* s is k, a word in small letters, up to the case of its letters.
EqualIgnoringCase(s, k) ==
    /\ Len(s) = Len(k)
    /\ \A i \in 1..Len(k) :
         \/ s[i] = k[i]
         \/ \E c \in 1..Len(Small) : Small[c] = k[i] /\ Capital[c] = s[i]

\* C5: get_optimizer picks the rule of the name whatever the case of its
\* letters, and for any other name logs a warning and returns Adam with the
\* given learning rate and weight decay; it never raises.
C5_OptimizerByName ==
    opt_call.op = "get_optimizer" =>
        LET name == opt_args.name
            rules == {OPTIMIZERS[k] : k \in
                        {k \in DOMAIN OPTIMIZERS :
                           name.t = "str" /\ EqualIgnoringCase(name.s, k)}}
        IN /\ opt_call.out.raised = "none"
           /\ opt_call.out.value.lr = opt_args.learning_rate
           /\ opt_call.out.value.weight_decay = opt_args.weight_decay
           /\ \A r \in rules : opt_call.out.value.cls = r
           /\ rules = {} =>
                /\ warnings = <<UnrecognizedWarning>>
                /\ opt_call.out.value.cls = "Adam"

\* get_optimizer has been given "foo" and has fallen back to Adam.
C5_Witness ==
    /\ opt_call.op = "get_optimizer"
    /\ opt_args.name = Str(<<"f", "o", "o">>)
    /\ warnings = <<UnrecognizedWarning>>
    /\ opt_call.out = Return(Optimizer("Adam", opt_args.learning_rate,
                                       opt_args.weight_decay))

Missing(d, k) == k \notin DOMAIN d \/ d[k] = None

HasScheduler == "lr_scheduler" \in DOMAIN config
HasName == HasScheduler /\ "name" \in DOMAIN config["lr_scheduler"]
HasLearningRate == "learning_rate" \in DOMAIN config
NumericLearningRate == HasLearningRate /\ IsNumber(config["learning_rate"])
NameIs(n) == HasName /\ config["lr_scheduler"]["name"] = Str(n)
Recognized == NameIs("multi_step") \/ NameIs("cos_anneal") \/ NameIs("cyclic")

\* C6 as stated: with the name absent or unrecognized and step_size or gamma
\* missing, get_lr_scheduler returns the constant schedule and no error
\* reaches the caller.
C6_AsStated ==
    ( /\ sched_call.op = "get_lr_scheduler"
      /\ HasLearningRate
      /\ HasScheduler
      /\ ~Recognized
      /\ Missing(config["lr_scheduler"], "step_size") \/ Missing(config, "gamma") )
    => sched_call.out = Return([cls |-> "LambdaLR", lr_lambda |-> PyInt(1)])

StepSizeOrGammaRead ==
    \E i \in 1..Len(sched_call.reads) : sched_call.reads[i] \in {"step_size", "gamma"}

\* C7 as stated: multi_step gives milestones 2, 6, 12 and factor 0.5 whatever
\* the other fields of the configuration are, cos_anneal period 4 and minimum
\* base/10, cyclic base/10 to base with a ramp of 2, and step_size and gamma
\* are read only for a name that is none of the three.
C7_AsStated ==
    sched_call.op = "get_lr_scheduler" =>
        /\ NameIs("multi_step") =>
             sched_call.out = Return([cls |-> "MultiStepLR",
                                      milestones |-> <<2, 6, 12>>,
                                      gamma |-> Float(1, 2)])
        /\ (NameIs("cos_anneal") /\ NumericLearningRate) =>
             sched_call.out =
                 Return([cls |-> "CosineAnnealingWarmRestarts", T_0 |-> 4,
                         T_mult |-> 1,
                         eta_min |-> Float(config["learning_rate"].num,
                                           10 * config["learning_rate"].den)])
        /\ (NameIs("cyclic") /\ NumericLearningRate) =>
             sched_call.out =
                 Return([cls |-> "CyclicLR",
                         base_lr |-> Float(config["learning_rate"].num,
                                           10 * config["learning_rate"].den),
                         max_lr |-> config["learning_rate"],
                         step_size_up |-> 2, cycle_momentum |-> FALSE])
        /\ StepSizeOrGammaRead => ~Recognized

\* C7, amended: as stated, for a configuration that has a learning_rate key
\* (of any value, None included, for multi_step); without the key
\* get_lr_scheduler raises KeyError before it looks at the name.
C7_Dispatch ==
    sched_call.op = "get_lr_scheduler" =>
        /\ (NameIs("multi_step") /\ HasLearningRate) =>
             sched_call.out = Return([cls |-> "MultiStepLR",
                                      milestones |-> <<2, 6, 12>>,
                                      gamma |-> Float(1, 2)])
        /\ (NameIs("cos_anneal") /\ NumericLearningRate) =>
             sched_call.out =
                 Return([cls |-> "CosineAnnealingWarmRestarts", T_0 |-> 4,
                         T_mult |-> 1,
                         eta_min |-> Float(config["learning_rate"].num,
                                           10 * config["learning_rate"].den)])
        /\ (NameIs("cyclic") /\ NumericLearningRate) =>
             sched_call.out =
                 Return([cls |-> "CyclicLR",
                         base_lr |-> Float(config["learning_rate"].num,
                                           10 * config["learning_rate"].den),
                         max_lr |-> config["learning_rate"],
                         step_size_up |-> 2, cycle_momentum |-> FALSE])
        /\ StepSizeOrGammaRead => ~Recognized
        /\ ~HasLearningRate => sched_call.out = Raise("KeyError")

\* multi_step has been asked for with a learning rate of None and neither
\* step_size nor gamma in the configuration.
C7_Witness ==
    /\ sched_call.op = "get_lr_scheduler"
    /\ NameIs("multi_step")
    /\ HasLearningRate /\ config["learning_rate"] = None
    /\ "step_size" \notin DOMAIN config["lr_scheduler"]
    /\ "gamma" \notin DOMAIN config
    /\ sched_call.out.raised = "none"
    /\ sched_call.out.value.milestones = <<2, 6, 12>>

-----------------------------------------------------------------------------
(* Properties of resave_model and of PlTrainer.                            *)

AllPrefixed(sd) ==
    \A i \in 1..Len(sd) :
        Len(sd[i][1]) >= 2 /\ sd[i][1][1] = "model" /\ sd[i][1][2] = "."

\* k without its first two tokens, "model" and "."
Rest(k) == SubSeq(k, 3, Len(k))

ResavedPrefixed ==
    /\ resave_call.op = "resave_model"
    /\ resave_call.checkpoint # None
    /\ "state_dict" \in DOMAIN resave_call.checkpoint
    /\ AllPrefixed(resave_call.checkpoint["state_dict"])

\* C4: of a checkpoint whose parameter names all are "model.<rest>",
\* resave_model writes a file with the one key state_dict, whose keys are the
\* <rest>s, later dots kept, each with the value of its original, and as many
\* as there were.
C4_ResaveStripsPrefix ==
    ResavedPrefixed =>
        LET sd == resave_call.checkpoint["state_dict"]
        IN /\ resave_call.out.raised = "none"
           /\ OutputFp \in DOMAIN files
           /\ DOMAIN files[OutputFp] = {"state_dict"}
           /\ Keys(files[OutputFp]["state_dict"]) = {Rest(k) : k \in Keys(sd)}
           /\ \A i \in 1..Len(sd) :
                Lookup(files[OutputFp]["state_dict"], Rest(sd[i][1])) = sd[i][2]
           /\ Len(files[OutputFp]["state_dict"]) = Len(sd)

\* Two parameters have been renamed, one of them with a dot left in its name.
C4_Witness ==
    /\ ResavedPrefixed
    /\ Len(resave_call.checkpoint["state_dict"]) = 2
    /\ OutputFp \in DOMAIN files
    /\ \E k \in Keys(files[OutputFp]["state_dict"]) : Positions(k, ".") # {}

DirName(p) ==
    IF Positions(p, "/") = {} THEN <<>> ELSE Before(p, Last(Positions(p, "/")))
BaseName(p) ==
    IF Positions(p, "/") = {} THEN p ELSE After(p, Last(Positions(p, "/")))

\* p with "-model" put before the extension of its file name, or at its end
\* when the file name has none.
WithModelSuffix(p) ==
    LET base == BaseName(p)
        stem == IF Positions(base, ".") = {} THEN base
                ELSE Before(base, Last(Positions(base, ".")))
    IN SubSeq(p, 1, Len(p) - Len(base) + Len(stem)) \o <<"-model">>
       \o SubSeq(p, Len(p) - Len(base) + Len(stem) + 1, Len(p))

LrMonitorOnly == <<[cls |-> "LearningRateMonitor", logging_interval |-> "step"]>>

ConfiguredMonitor == Get(trainer_args.config, "pl_checkpoint_monitor", None)

\* C10 as stated: whatever the configuration, the trainer is built with a
\* checkpoint callback whose file name pattern starts with the class name and
\* {epoch:03d}; with a monitor configured the pattern ends with the metric to
\* 4 decimals, and the callback monitors it in the configured mode (min by
\* default), saves the last checkpoint and keeps the best 5.
C10_AsStated ==
    trainer # None =>
        \E i \in 1..Len(trainer.pl_trainer.callbacks) :
            LET cb == trainer.pl_trainer.callbacks[i]
                epoch_pattern == trainer_args.class_name \o <<"-", "{epoch:03d}">>
            IN /\ cb.cls = "ModelCheckpoint"
               /\ SubSeq(cb.filename, 1, Len(epoch_pattern)) = epoch_pattern
               /\ ConfiguredMonitor # None =>
                    /\ cb.filename = epoch_pattern
                           \o <<"-", "{">> \o ConfiguredMonitor.s \o <<":.4f}">>
                    /\ cb.monitor = ConfiguredMonitor
                    /\ cb.mode = Get(trainer_args.config, "pl_checkpoint_mode",
                                     Str("min"))
                    /\ cb.save_last
                    /\ cb.save_top_k = 5

\* C10, amended: the trainer is built with a checkpoint callback only when a
\* monitor that is not empty is configured; the callback is then as stated,
\* and the pattern is the class name, {epoch:03d} and the metric joined by
\* "-".  Without a monitor, or with None or the empty string for one, the
\* learning-rate monitor is the only callback.
C10_CheckpointCallback ==
    trainer # None =>
        IF ConfiguredMonitor # None /\ ConfiguredMonitor.s # <<>>
        THEN trainer.pl_trainer.callbacks =
                 LrMonitorOnly \o
                 <<[cls |-> "ModelCheckpoint",
                    monitor |-> ConfiguredMonitor,
                    mode |-> Get(trainer_args.config, "pl_checkpoint_mode",
                                 Str("min")),
                    filename |-> trainer_args.class_name
                                 \o <<"-", "{epoch:03d}", "-", "{">>
                                 \o ConfiguredMonitor.s \o <<":.4f}">>,
                    save_last |-> TRUE,
                    save_top_k |-> 5]>>
        ELSE trainer.pl_trainer.callbacks = LrMonitorOnly

\* A trainer of a subclass has been built to monitor val_loss, with no mode
\* configured.
C10_Witness ==
    /\ trainer # None
    /\ trainer_args.class_name = <<"MyTrainer">>
    /\ ConfiguredMonitor = Str(<<"val_loss">>)
    /\ "pl_checkpoint_mode" \notin DOMAIN trainer_args.config
    /\ Len(trainer.pl_trainer.callbacks) = 2
    /\ trainer.pl_trainer.callbacks[2].mode = Str("min")
    /\ trainer.pl_trainer.callbacks[2].filename =
           <<"MyTrainer", "-", "{epoch:03d}", "-", "{", "val_loss", ":.4f}">>

====
